---- MODULE Spec2Model ----
(***************************************************************************)
(* Chain adapters of the cross-chain messaging layer:                      *)
(*   - EthereumOutboxIndexer / EthereumOutbox   (abacus-ethereum outbox.rs) *)
(*   - Mailbox::process_batch default           (hyperlane-core mailbox.rs) *)
(*   - CosmosRoutingIsm::route                  (hyperlane-cosmos)          *)
(* The chain (the Outbox contract and its event log) is the environment of *)
(* the adapters; the adapters' operations read it through remote calls.    *)
(***************************************************************************)
EXTENDS Integers, Sequences, FiniteSets, TLC

VARIABLES
    head,              \* number of the latest block of the chain (U64)
    count,             \* leaves in the outbox's tree (U256)
    hist,              \* cached (root, index) after each block that was mined
    dispatchEvents,    \* Dispatch logs of the chain, in log order
    checkpointEvents,  \* CheckpointCached logs of the chain, in log order
    pc,                \* position of the latest_cached_checkpoint call in flight
    lcc,               \* the latest_cached_checkpoint call in flight: lag, tip, block
    observed,          \* block and index of the last successful latest_cached_checkpoint
    delivered,         \* messages the mailbox has processed
    res                \* outcome of the operation that returned last

vars == <<head, count, hist, dispatchEvents, checkpointEvents, pc, lcc,
          observed, delivered, res>>

chainVars == <<head, count, hist, dispatchEvents, checkpointEvents>>

-----------------------------------------------------------------------------
(* Bounds of the exploration *)

MaxBlocks == 2          \* blocks mined after the first state
MaxLeaves == 2          \* dispatches after the first state
MaxCheckpoints == 2     \* CheckpointCached events after the first state
MaxLag == 2             \* small lags tried (a lag above the tip is always tried)
MaxBatch == 2           \* items of a batch
MaxIsmLen == 3          \* characters of an ism string

-----------------------------------------------------------------------------
(* Unsigned integers wider than TLC's: value = hi * Radix + lo.            *)
(* u32 values are exactly those with hi < Radix.                           *)

Radix == 65536

W(h, l) == [hi |-> h, lo |-> l]

WZero == W(0, 0)

WAdd(a, n) == W(a.hi + ((a.lo + n) \div Radix), (a.lo + n) % Radix)

WLt(a, b) == a.hi < b.hi \/ (a.hi = b.hi /\ a.lo < b.lo)

WLe(a, b) == ~WLt(b, a)

WPlus(a, b) == W(a.hi + b.hi + ((a.lo + b.lo) \div Radix), (a.lo + b.lo) % Radix)

\* a - b for b <= a
WSub(a, b) ==
    IF a.lo >= b.lo THEN W(a.hi - b.hi, a.lo - b.lo)
                    ELSE W(a.hi - b.hi - 1, a.lo + Radix - b.lo)

\* ordering of two keys as std::cmp::Ordering
Cmp(a, b) == IF WLt(a, b) THEN "Less" ELSE IF WLt(b, a) THEN "Greater" ELSE "Equal"

FitsU32(a) == a.hi < Radix

U32Max == W(Radix - 1, Radix - 1)

\* as_u32 keeping the low 32 bits, as low_u32 does
as_u32_Truncating(a) == [kind |-> "Ok", v |-> W(a.hi % Radix, a.lo)]

\* U256::as_u32 / U64::as_u32: the value when it fits, a panic otherwise
as_u32(a) == IF FitsU32(a) THEN [kind |-> "Ok", v |-> a] ELSE [kind |-> "Panic"]

-----------------------------------------------------------------------------
(* The chain: the Outbox contract, its blocks and its event logs.          *)

\* the tree's root once n leaves are in it (opaque 32 bytes)
RootOf(n) == [leaves |-> n]

\* one contract call inside a transaction; cache at an empty tree reverts
ExecOp(st, op, blk, tx) ==
    IF st.reverted THEN st
    ELSE IF op = "dispatch" THEN
        [st EXCEPT !.count = WAdd(@, 1),
                   !.log = @ + 1,
                   !.devs = Append(@, [block_number |-> blk, transaction_index |-> tx,
                                       log_index |-> st.log, leaf_index |-> st.count,
                                       message |-> <<Len(st.devs) + 1>>])]
    ELSE IF st.count = WZero THEN [st EXCEPT !.reverted = TRUE]
    ELSE
        [st EXCEPT !.cached = [root |-> RootOf(st.count), index |-> WSub(st.count, W(0, 1))],
                   !.log = @ + 1,
                   !.cevs = Append(@, [block_number |-> blk, transaction_index |-> tx,
                                       log_index |-> st.log, root |-> RootOf(st.count),
                                       index |-> WSub(st.count, W(0, 1))])]

RECURSIVE ExecOps(_, _, _, _)
ExecOps(st, ops, blk, tx) ==
    IF ops = <<>> THEN st
    ELSE ExecOps(ExecOp(st, Head(ops), blk, tx), Tail(ops), blk, tx)

\* a transaction is atomic: a revert leaves no trace but its place in the block
ExecTx(st, ops, blk, tx) ==
    LET r == ExecOps(st, ops, blk, tx) IN IF r.reverted THEN st ELSE r

RECURSIVE ExecBlock(_, _, _, _)
ExecBlock(st, txs, blk, tx) ==
    IF txs = <<>> THEN st
    ELSE ExecBlock(ExecTx(st, Head(txs), blk, tx), Tail(txs), blk, W(0, tx.lo + 1))

\* the transactions a block may hold
TxKinds == { <<"dispatch">>, <<"cache">>, <<"cache", "dispatch", "cache">> }

BlockContents == { <<>> } \cup { <<t>> : t \in TxKinds }
                      \cup { <<t, <<"dispatch", "cache">> >> : t \in TxKinds }

\* the cached (root, index) the contract held at the end of block b
StateAt(b) ==
    LET known == { i \in DOMAIN hist : WLe(hist[i].block, b) }
        last == CHOOSE i \in known : \A j \in known : j <= i
    IN  hist[last].cp

MineBlock(txs) ==
    LET blk == WAdd(head, 1)
        st0 == [count |-> count, cached |-> hist[Len(hist)].cp, log |-> 0,
                devs |-> dispatchEvents, cevs |-> checkpointEvents, reverted |-> FALSE]
        st == ExecBlock(st0, txs, blk, WZero)
    IN  /\ Len(hist) <= MaxBlocks
        /\ Len(st.devs) <= MaxLeaves
        /\ Len(st.cevs) <= MaxCheckpoints
        /\ head' = blk
        /\ count' = st.count
        /\ hist' = Append(hist, [block |-> blk, cp |-> st.cached])
        /\ dispatchEvents' = st.devs
        /\ checkpointEvents' = st.cevs
        /\ UNCHANGED <<pc, lcc, observed, delivered, res>>

-----------------------------------------------------------------------------
(* EthereumOutbox                                                          *)

Domain == 1000

\* Option<T>
Some(x) == [some |-> TRUE, v |-> x]

None == [some |-> FALSE]

\* the call has not returned yet
Pending == [op |-> "latest_cached_checkpoint", kind |-> "Pending"]

NoCall == [maybe_lag |-> None, tip |-> None, block |-> None]

Lags == { W(0, k) : k \in 0..MaxLag } \cup { WAdd(head, 1) }

\* the subtraction without the clamp
ResolveBlock_NoClamp(lag, tip) == WSub(tip, lag)

\* the block a lagged read is pinned to
ResolveBlock(lag, tip) == IF WLt(tip, lag) THEN WZero ELSE WSub(tip, lag)

\* latest_cached_checkpoint(Some(lag)) up to the await of get_block_number
LccResolveLag(lag) ==
    /\ pc = "idle"
    /\ \E ok \in BOOLEAN :
        IF ok
        THEN /\ pc' = "call"
             /\ lcc' = [maybe_lag |-> Some(lag), tip |-> Some(head),
                     block |-> Some(ResolveBlock(lag, head))]
             /\ res' = Pending
        ELSE /\ pc' = "idle"
             /\ lcc' = NoCall
             /\ res' = [op |-> "latest_cached_checkpoint", kind |-> "Err",
                        err |-> "ChainCommunicationError"]
    /\ UNCHANGED <<chainVars, observed, delivered>>

\* latest_cached_checkpoint(None) up to the call: it is not pinned to a block
LccNoLag ==
    /\ pc = "idle"
    /\ pc' = "call"
    /\ lcc' = [maybe_lag |-> None, tip |-> None, block |-> None]
    /\ res' = Pending
    /\ UNCHANGED <<chainVars, observed, delivered>>

\* root and index read by two calls, the index at the head
ReadCheckpoint_Torn(at) == [root |-> StateAt(at).root, index |-> StateAt(head).index]

\* what the one eth_call of (root, index) returns when it runs at block at
ReadCheckpoint(at) == StateAt(at)

\* the call of latestCachedCheckpoint() and the conversion of what it returns
LccCall ==
    /\ pc = "call"
    /\ pc' = "idle"
    /\ lcc' = NoCall
    /\ \E ok \in BOOLEAN :
        LET at == IF lcc.block.some THEN lcc.block.v ELSE head
            cp == ReadCheckpoint(at)
            idx == as_u32(cp.index)
        IN  IF ~ok
            THEN /\ res' = [op |-> "latest_cached_checkpoint", kind |-> "Err",
                            err |-> "ChainCommunicationError"]
                 /\ UNCHANGED observed
            ELSE IF idx.kind = "Panic"
            THEN /\ res' = [op |-> "latest_cached_checkpoint", kind |-> "Panic",
                            call |-> lcc, at |-> at, head |-> head, raw |-> cp.index]
                 /\ UNCHANGED observed
            ELSE /\ res' = [op |-> "latest_cached_checkpoint", kind |-> "Ok",
                            value |-> [outbox_domain |-> Domain, root |-> cp.root,
                                       index |-> idx.v],
                            call |-> lcc, at |-> at, head |-> head, raw |-> cp.index,
                            prev |-> observed]
                 /\ observed' = Some([at |-> at, index |-> idx.v])
    /\ UNCHANGED <<chainVars, delivered>>

\* the match with a catch-all arm that yields Failed
StateOf_Coerce(raw) ==
    IF raw = 0 THEN [kind |-> "Ok", value |-> "Waiting"]
    ELSE [kind |-> "Ok", value |-> "Failed"]

\* the match of state(): 0 and 1 are the two states, anything else is unreachable!()
StateOf(raw) ==
    IF raw = 0 THEN [kind |-> "Ok", value |-> "Waiting"]
    ELSE IF raw = 1 THEN [kind |-> "Ok", value |-> "Failed"]
    ELSE [kind |-> "Panic"]

\* the u8 values the contract's state() may answer with
RawStates == {0, 1, 2, 3, 255}

State(raw) ==
    /\ pc = "idle"
    /\ \E ok \in BOOLEAN :
        res' = IF ok
               THEN [op |-> "state", raw |-> raw] @@ StateOf(raw)
               ELSE [op |-> "state", kind |-> "Err", err |-> "ChainCommunicationError"]
    /\ UNCHANGED <<chainVars, pc, lcc, observed, delivered>>

\* the outcome of an operation that narrows the one value it read to u32
Narrowed(op, raw) ==
    IF as_u32(raw).kind = "Ok"
    THEN [op |-> op, kind |-> "Ok", value |-> as_u32(raw).v, raw |-> raw]
    ELSE [op |-> op, kind |-> "Panic", raw |-> raw]

Count ==
    /\ pc = "idle"
    /\ \E ok \in BOOLEAN :
        res' = IF ok THEN Narrowed("count", count)
                     ELSE [op |-> "count", kind |-> "Err", err |-> "ChainCommunicationError"]
    /\ UNCHANGED <<chainVars, pc, lcc, observed, delivered>>

-----------------------------------------------------------------------------
(* EthereumOutboxIndexer                                                   *)

GetBlockNumber ==
    /\ pc = "idle"
    /\ \E ok \in BOOLEAN :
        res' = IF ok THEN Narrowed("get_block_number", head)
                     ELSE [op |-> "get_block_number", kind |-> "Err", err |-> "Report"]
    /\ UNCHANGED <<chainVars, pc, lcc, observed, delivered>>

\* the u32 block numbers a caller passes as from and to
BlockArgs == { b \in { hist[i].block : i \in DOMAIN hist } : FitsU32(b) }

InRange(e, from, to) == WLe(from, e.block_number) /\ WLe(e.block_number, to)

Range(s) == { s[i] : i \in DOMAIN s }

\* every order in which a log query may hand back the events of the range
QueryResults(events, from, to) ==
    LET S == { e \in Range(events) : InRange(e, from, to) }
        n == Cardinality(S)
    IN  { q \in [1..n -> S] : \A i, j \in 1..n : i # j => q[i] # q[j] }

\* slice::sort_by: a stable sort; ord[i, j] is the Ordering the closure gives
\* for the elements at i and j
SortBy(s, ord) ==
    LET n == Len(s)
        before(i, j) == ord[i, j] = "Less" \/ (ord[i, j] = "Equal" /\ i < j)
        rank(i) == 1 + Cardinality({ j \in 1..n : before(j, i) })
    IN  [k \in 1..n |-> s[CHOOSE i \in 1..n : rank(i) = k]]

\* a sort that orders equal elements last-first
SortByUnstable(s, ord) ==
    LET n == Len(s)
        before(i, j) == ord[i, j] = "Less" \/ (ord[i, j] = "Equal" /\ i > j)
        rank(i) == 1 + Cardinality({ j \in 1..n : before(j, i) })
    IN  [k \in 1..n |-> s[CHOOSE i \in 1..n : rank(i) = k]]

\* the closure without the comparison of transaction_index
CheckpointOrder_BlockOnly(a, b) == Cmp(a.block_number, b.block_number)

\* the closure given to sort_by in fetch_sorted_checkpoints
CheckpointOrder(a, b) ==
    LET ordering == Cmp(a.block_number, b.block_number)
    IN  IF ordering = "Equal" THEN Cmp(a.transaction_index, b.transaction_index)
                              ELSE ordering

\* the events left as the query handed them back
SortCheckpointEvents_Unsorted(events) == events

SortCheckpointEvents_Unstable(events) ==
    SortByUnstable(events, [i, j \in DOMAIN events |->
                               CheckpointOrder(events[i], events[j])])

SortCheckpointEvents(events) ==
    SortBy(events, [i, j \in DOMAIN events |-> CheckpointOrder(events[i], events[j])])

\* the closure given to sort_by in fetch_sorted_messages
DispatchOrder(a, b) == Cmp(a.leaf_index, b.leaf_index)

SortDispatchEvents_Unsorted(events) == events

SortDispatchEvents(events) ==
    SortBy(events, [i, j \in DOMAIN events |-> DispatchOrder(events[i], events[j])])

\* event -> CheckpointWithMeta
ToCheckpointWithMeta(event) ==
    [checkpoint |-> [outbox_domain |-> Domain, root |-> event.root,
                     index |-> as_u32(event.index).v],
     metadata |-> [block_number |-> event.block_number]]

\* event -> RawCommittedMessage
ToRawCommittedMessage(f) ==
    [leaf_index |-> as_u32(f.leaf_index).v, message |-> f.message]

\* what fetch_sorted_checkpoints returns once the query answered with events
CheckpointsOf(events) ==
    LET sorted == SortCheckpointEvents(events)
    IN  IF \E i \in DOMAIN sorted : as_u32(sorted[i].index).kind = "Panic"
        THEN [op |-> "fetch_sorted_checkpoints", kind |-> "Panic", query |-> events]
        ELSE [op |-> "fetch_sorted_checkpoints", kind |-> "Ok", query |-> events,
              sorted |-> sorted,
              value |-> [i \in DOMAIN sorted |-> ToCheckpointWithMeta(sorted[i])]]

FetchSortedCheckpoints(from, to) ==
    /\ pc = "idle"
    /\ \E events \in QueryResults(checkpointEvents, from, to) :
       \E answer \in {"ok", "query fails", "local_domain fails"} :
        res' = IF answer = "ok" THEN CheckpointsOf(events)
               ELSE [op |-> "fetch_sorted_checkpoints", kind |-> "Err", err |-> "Report"]
    /\ UNCHANGED <<chainVars, pc, lcc, observed, delivered>>

\* what fetch_sorted_messages returns once the query answered with events
MessagesOf(events) ==
    LET sorted == SortDispatchEvents(events)
    IN  IF \E i \in DOMAIN sorted : as_u32(sorted[i].leaf_index).kind = "Panic"
        THEN [op |-> "fetch_sorted_messages", kind |-> "Panic", query |-> events]
        ELSE [op |-> "fetch_sorted_messages", kind |-> "Ok", query |-> events,
              value |-> [i \in DOMAIN sorted |-> ToRawCommittedMessage(sorted[i])]]

FetchSortedMessages(from, to) ==
    /\ pc = "idle"
    /\ \E events \in QueryResults(dispatchEvents, from, to) :
       \E ok \in BOOLEAN :
        res' = IF ok THEN MessagesOf(events)
               ELSE [op |-> "fetch_sorted_messages", kind |-> "Err", err |-> "Report"]
    /\ UNCHANGED <<chainVars, pc, lcc, observed, delivered>>

-----------------------------------------------------------------------------
(* Mailbox: the process side                                               *)

\* the messages a caller may hand to the mailbox
Messages == 1..MaxBatch

Batches == UNION { [1..n -> Messages] : n \in 0..MaxBatch }

\* process: the adapter's own; it submits the delivery of one message
Process(m) ==
    /\ \E ok \in BOOLEAN :
        IF ok
        THEN /\ delivered' = delivered \cup {m}
             /\ res' = [op |-> "process", kind |-> "Ok", message |-> m]
        ELSE /\ delivered' = delivered
             /\ res' = [op |-> "process", kind |-> "Err", err |-> "ChainCommunicationError",
                        message |-> m]
    /\ UNCHANGED <<chainVars, pc, lcc, observed>>

\* a body that submits the first item before it gives up
process_batch_Partial(messages) ==
    [result |-> [kind |-> "Err", err |-> "BatchingFailed"],
     submitted |-> IF messages = <<>> THEN {} ELSE {messages[1]}]

\* the provided body of process_batch: the result and the items it submitted
process_batch(messages) == [result |-> [kind |-> "Err", err |-> "BatchingFailed"],
                            submitted |-> {}]

ProcessBatch(messages) ==
    LET r == process_batch(messages)
    IN  /\ delivered' = delivered \cup r.submitted
        /\ res' = [op |-> "process_batch", messages |-> messages,
                   before |-> delivered] @@ r.result
        /\ UNCHANGED <<chainVars, pc, lcc, observed>>

-----------------------------------------------------------------------------
(* CosmosRoutingIsm                                                        *)

HexDigits == <<"0", "1", "2", "3", "4", "5", "6", "7",
               "8", "9", "a", "b", "c", "d", "e", "f">>

\* hex::encode of a byte string
RECURSIVE HexEncode(_)
HexEncode(bytes) ==
    IF bytes = <<>> THEN <<>>
    ELSE <<HexDigits[(Head(bytes) \div 16) + 1], HexDigits[(Head(bytes) % 16) + 1]>>
         \o HexEncode(Tail(bytes))

\* RawHyperlaneMessage::from(message), the message's wire bytes
RawMessage(m) == <<m, 16 * m + 15>>

IsmRouteRequest(m) == [route |-> [message |-> HexEncode(RawMessage(m))]]

\* characters of an address string: prefix, separator, data
IsmChars == {"h", "1", "q"}

IsmStrings == UNION { [1..n -> IsmChars] : n \in 0..MaxIsmLen }

\* the bodies a query may answer with: the expected object, other JSON, not JSON
Responses == { [json |-> TRUE, key |-> k, str |-> s] :
                  k \in {"ism", "route"}, s \in IsmStrings }
             \cup { [json |-> FALSE, key |-> "", str |-> <<>>] }

\* serde_json::from_slice::<IsmRouteRespnose>
ParseResponse(data) ==
    IF data.json /\ data.key = "ism" THEN [kind |-> "Ok", ism |-> data.str]
    ELSE [kind |-> "Err", err |-> "JsonParseError"]

\* a chain-native address: a prefix, the separator, then data characters
ValidAddress(s) ==
    /\ Len(s) >= 3
    /\ s[1] = "h"
    /\ s[2] = "1"
    /\ \A i \in 3..Len(s) : s[i] = "q"

\* bech32_decode: the address the data part encodes; it returns H256, not a Result
bech32_decode(s) ==
    IF ValidAddress(s) THEN [kind |-> "Ok", value |-> [h256 |-> SubSeq(s, 3, Len(s))]]
    ELSE [kind |-> "Panic"]

\* route once the query was built; answer is what wasm_query came back with
RouteResult(answer) ==
    IF ~answer.ok THEN [kind |-> "Err", err |-> "ChainCommunicationError"]
    ELSE LET response == ParseResponse(answer.data)
         IN  IF response.kind = "Err" THEN response
             ELSE bech32_decode(response.ism)

Route(m) ==
    /\ \E answer \in { [ok |-> TRUE, data |-> d] : d \in Responses }
                     \cup { [ok |-> FALSE, data |-> [json |-> FALSE, key |-> "", str |-> <<>>]] } :
        res' = [op |-> "route", payload |-> IsmRouteRequest(m), answer |-> answer]
               @@ RouteResult(answer)
    /\ UNCHANGED <<chainVars, pc, lcc, observed, delivered>>

-----------------------------------------------------------------------------

Genesis == { [head |-> WZero, count |-> WZero],
             [head |-> W(Radix - 1, Radix - 2), count |-> U32Max] }

Init ==
    /\ \E g \in Genesis : head = g.head /\ count = g.count
    /\ hist = << [block |-> WZero, cp |-> [root |-> RootOf(WZero), index |-> WZero]] >>
    /\ dispatchEvents = <<>>
    /\ checkpointEvents = <<>>
    /\ pc = "idle"
    /\ lcc = NoCall
    /\ observed = None
    /\ delivered = {}
    /\ res = [op |-> "none", kind |-> "none"]

Next ==
    \/ \E txs \in BlockContents : MineBlock(txs)
    \/ \E lag \in Lags : LccResolveLag(lag)
    \/ LccNoLag
    \/ LccCall
    \/ \E raw \in RawStates : State(raw)
    \/ Count
    \/ GetBlockNumber
    \/ \E from \in BlockArgs, to \in BlockArgs :
          WLe(from, to) /\ FetchSortedCheckpoints(from, to)
    \/ \E from \in BlockArgs, to \in BlockArgs :
          WLe(from, to) /\ FetchSortedMessages(from, to)

Spec == Init /\ [][Next]_vars

\* the process side: the mailbox and the routing module
NextProcess ==
    \/ \E m \in Messages : Process(m)
    \/ \E messages \in Batches : ProcessBatch(messages)
    \/ \E m \in Messages : Route(m)

SpecProcess == Init /\ [][NextProcess]_vars

-----------------------------------------------------------------------------
(* Properties                                                              *)

IsResult(op, kind) == res.op = op /\ res.kind = kind

\* C1: a successful fetch_sorted_messages returns records whose leaf_index
\* strictly increases from one record to the next, whatever order the
\* dispatch-event query answered in.
C1_MessagesStrictlyIncreasing ==
    IsResult("fetch_sorted_messages", "Ok") =>
        /\ Len(res.value) = Len(res.query)
        /\ \A i \in 1..(Len(res.value) - 1) :
               WLt(res.value[i].leaf_index, res.value[i + 1].leaf_index)

\* the query answered with a later leaf first, and the call succeeded
C1_Witness ==
    /\ IsResult("fetch_sorted_messages", "Ok")
    /\ Len(res.query) >= 2
    /\ WLt(res.query[2].leaf_index, res.query[1].leaf_index)

KeyLt(a, b) ==
    \/ WLt(a.block_number, b.block_number)
    \/ a.block_number = b.block_number /\ WLt(a.transaction_index, b.transaction_index)

SameKey(a, b) ==
    a.block_number = b.block_number /\ a.transaction_index = b.transaction_index

PosIn(q, e) == CHOOSE k \in DOMAIN q : q[k] = e

\* C2: a successful fetch_sorted_checkpoints returns the queried events
\* stably sorted by (block_number, transaction_index): every event once,
\* keys non-decreasing, and events of equal key in the order of the query.
C2_CheckpointsStablySorted ==
    IsResult("fetch_sorted_checkpoints", "Ok") =>
        /\ Len(res.sorted) = Len(res.query)
        /\ Range(res.sorted) = Range(res.query)
        /\ \A i \in DOMAIN res.sorted :
               res.value[i] = [checkpoint |-> [outbox_domain |-> Domain,
                                               root |-> res.sorted[i].root,
                                               index |-> res.sorted[i].index],
                               metadata |-> [block_number |-> res.sorted[i].block_number]]
        /\ \A i, j \in DOMAIN res.sorted :
               i < j => /\ ~KeyLt(res.sorted[j], res.sorted[i])
                        /\ SameKey(res.sorted[i], res.sorted[j]) =>
                               PosIn(res.query, res.sorted[i]) < PosIn(res.query, res.sorted[j])

\* two events of one block, the one of the later transaction answered first
C2_Witness ==
    /\ IsResult("fetch_sorted_checkpoints", "Ok")
    /\ Len(res.query) >= 2
    /\ res.query[1].block_number = res.query[2].block_number
    /\ WLt(res.query[2].transaction_index, res.query[1].transaction_index)
    /\ res.sorted[1] = res.query[2]

\* C3: latest_cached_checkpoint(Some(lag)) reads at block max(tip - lag, 0):
\* block 0 when lag > tip, tip - lag otherwise, never outside 0..tip.
C3_LagClampedToGenesis ==
    /\ (pc = "call" /\ lcc.maybe_lag.some) =>
           /\ WLt(lcc.tip.v, lcc.maybe_lag.v) => lcc.block.v = WZero
           /\ WLe(lcc.maybe_lag.v, lcc.tip.v) =>
                  WPlus(lcc.block.v, lcc.maybe_lag.v) = lcc.tip.v
           /\ WLe(WZero, lcc.block.v) /\ WLe(lcc.block.v, lcc.tip.v)
    /\ (res.op = "latest_cached_checkpoint" /\ res.kind \in {"Ok", "Panic"}
            /\ res.call.maybe_lag.some) =>
           /\ res.at = res.call.block.v
           /\ WLt(res.call.tip.v, res.call.maybe_lag.v) => res.at = WZero
           /\ WLe(res.call.maybe_lag.v, res.call.tip.v) =>
                  WPlus(res.at, res.call.maybe_lag.v) = res.call.tip.v

\* a lag above a tip that is not 0: the read went to block 0
C3_Witness ==
    /\ IsResult("latest_cached_checkpoint", "Ok")
    /\ res.call.maybe_lag.some
    /\ WLt(res.call.tip.v, res.call.maybe_lag.v)
    /\ WLt(WZero, res.call.tip.v)
    /\ res.at = WZero

\* C4: the root and the index a call returns are both the values the chain
\* held at the one block the call resolved from the one tip it read, whatever
\* blocks and checkpoints the chain added while the call was in flight.
C4_ConsistentSnapshot ==
    IsResult("latest_cached_checkpoint", "Ok") =>
        /\ res.value.root = StateAt(res.at).root
        /\ res.value.index = StateAt(res.at).index
        /\ res.value.outbox_domain = Domain
        /\ res.call.maybe_lag.some =>
               /\ res.at = res.call.block.v
               /\ WLe(res.call.tip.v, res.head)

\* the head moved and a new checkpoint was cached between the read of the tip
\* and the call
C4_Witness ==
    /\ IsResult("latest_cached_checkpoint", "Ok")
    /\ res.call.maybe_lag.some
    /\ WLt(res.call.tip.v, res.head)
    /\ StateAt(res.head) # StateAt(res.at)

\* C5: the provided process_batch answers BatchingFailed for every list of
\* items and submits none of them: the mailbox is as it was before the call.
C5_BatchingFailedNoEffect ==
    res.op = "process_batch" =>
        /\ res.kind = "Err"
        /\ res.err = "BatchingFailed"
        /\ delivered = res.before

\* a batch of several items, one of them not delivered before
C5_Witness ==
    /\ res.op = "process_batch"
    /\ Len(res.messages) >= 2
    /\ delivered # {}
    /\ \E i \in DOMAIN res.messages : res.messages[i] \notin delivered

\* C6: state() answers Waiting for raw 0 and Failed for raw 1, panics for
\* every other raw value, and returns a chain-communication error when the
\* remote read fails.
C6_StateMapping ==
    res.op = "state" =>
        /\ res.kind \in {"Ok", "Panic", "Err"}
        /\ res.kind = "Err" => res.err = "ChainCommunicationError"
        /\ res.kind # "Err" =>
               /\ res.raw = 0 => res.kind = "Ok" /\ res.value = "Waiting"
               /\ res.raw = 1 => res.kind = "Ok" /\ res.value = "Failed"
               /\ res.raw \notin {0, 1} => res.kind = "Panic"

\* an unrecognised raw value
C6_Witness == IsResult("state", "Panic") /\ res.raw = 2

\* the operation that returned last read a value that does not fit 32 bits
ReadOversized ==
    /\ res.kind \in {"Ok", "Panic"}
    /\ \/ /\ res.op \in {"count", "get_block_number", "latest_cached_checkpoint"}
          /\ ~FitsU32(res.raw)
       \/ /\ res.op = "fetch_sorted_checkpoints"
          /\ \E i \in DOMAIN res.query : ~FitsU32(res.query[i].index)
       \/ /\ res.op = "fetch_sorted_messages"
          /\ \E i \in DOMAIN res.query : ~FitsU32(res.query[i].leaf_index)

\* C7: an operation that narrows a value exceeding the 32-bit range fails
\* with a decode failure returned to its caller.
C7_OversizedIsDecodeError ==
    ReadOversized => res.kind = "Err" /\ res.err = "DecodeError"

\* C8: route returns the address decoded from the ism field of a well-formed
\* response, a decode error for a malformed response (not the expected JSON,
\* or an ism that is no valid address), a chain-communication error when the
\* query fails.
C8_RouteErrors ==
    res.op = "route" =>
        IF ~res.answer.ok
        THEN res.kind = "Err" /\ res.err = "ChainCommunicationError"
        ELSE IF res.answer.data.json /\ res.answer.data.key = "ism"
                  /\ ValidAddress(res.answer.data.str)
        THEN res.kind = "Ok"
        ELSE res.kind = "Err" /\ res.err \in {"JsonParseError", "DecodeError"}

\* the orders in which a query may answer with the events of q
Reorderings(q) ==
    { p \in [DOMAIN q -> Range(q)] : \A i, j \in DOMAIN q : i # j => p[i] # p[j] }

\* p and q list the events of one transaction in the same relative order
AgreeOnTies(p, q) ==
    \A a, b \in Range(q) :
        (SameKey(a, b) /\ PosIn(q, a) < PosIn(q, b)) => PosIn(p, a) < PosIn(p, b)

\* C9 as stated: every order of retrieval of the same events, events of one
\* block and transaction included, gives the same returned sequence.
C9_AnyRetrievalOrder ==
    IsResult("fetch_sorted_checkpoints", "Ok") =>
        \A p \in Reorderings(res.query) : CheckpointsOf(p).value = res.value

\* C9 amended: two retrieval orders of the same events that list the events
\* sharing a block and a transaction in the same relative order give the same
\* returned sequence.
C9_RetrievalOrderUpToTies ==
    IsResult("fetch_sorted_checkpoints", "Ok") =>
        \A p \in Reorderings(res.query) :
            AgreeOnTies(p, res.query) => CheckpointsOf(p).value = res.value

\* two different events of one block in different transactions, answered
\* later-first
C9_Witness ==
    /\ IsResult("fetch_sorted_checkpoints", "Ok")
    /\ Len(res.query) >= 2
    /\ res.query[1].block_number = res.query[2].block_number
    /\ WLt(res.query[2].transaction_index, res.query[1].transaction_index)
    /\ res.value[1] # res.value[2]

\* C10 as stated: along one fetch_sorted_checkpoints output, and from one
\* latest_cached_checkpoint call to the next with any lags, the index never
\* decreases.
C10_IndexNeverDecreases ==
    /\ IsResult("fetch_sorted_checkpoints", "Ok") =>
           \A i, j \in DOMAIN res.value :
               i < j => WLe(res.value[i].checkpoint.index, res.value[j].checkpoint.index)
    /\ (IsResult("latest_cached_checkpoint", "Ok") /\ res.prev.some) =>
           WLe(res.prev.v.index, res.value.index)

\* the query answered the events of each transaction in log order
TiesInLogOrder(q) ==
    \A i, j \in DOMAIN q :
        (i < j /\ SameKey(q[i], q[j])) => q[i].log_index < q[j].log_index

\* C10 amended: the index never decreases along one fetch_sorted_checkpoints
\* output whose query answered the events of each transaction in log order,
\* nor from one latest_cached_checkpoint call to the next when the block the
\* later call read at is not before the block the earlier call read at.
C10_IndexMonotoneInReadBlock ==
    /\ (IsResult("fetch_sorted_checkpoints", "Ok") /\ TiesInLogOrder(res.query)) =>
           \A i, j \in DOMAIN res.value :
               i < j => WLe(res.value[i].checkpoint.index, res.value[j].checkpoint.index)
    /\ (IsResult("latest_cached_checkpoint", "Ok") /\ res.prev.some
            /\ WLe(res.prev.v.at, res.at)) =>
           WLe(res.prev.v.index, res.value.index)

\* a lagged call after a call without lag, reading at a later block a larger
\* index
C10_Witness ==
    /\ IsResult("latest_cached_checkpoint", "Ok")
    /\ res.prev.some
    /\ res.call.maybe_lag.some
    /\ WLt(res.prev.v.at, res.at)
    /\ WLt(res.prev.v.index, res.value.index)

====
